---- MODULE Spec2Model ----
(***************************************************************************)
(* Model of the Dropcomplete widget (src/dropcomplete.ts): the widget's    *)
(* fields, the DOM facts its handlers read (the input's value and focus,   *)
(* the listeners bound on input/window/document, the overlay container's   *)
(* parent and children), the closures handed to the caller's fetch, and    *)
(* the pending blur timers.  Every handler runs to completion (single UI   *)
(* thread), so each is one action.                                         *)
(***************************************************************************)
EXTENDS Integers, Sequences, FiniteSets, TLC

VARIABLES
    cfg,              \* the settings copied by the constructor (minLen, emptyMsg, showOnFocus, preventSubmit)
    items,            \* this.items
    inputValue,       \* this.inputValue
    selected,         \* this.selected
    keypressCounter,  \* this.keypressCounter
    parentNode,       \* this.container.parentNode is set (container attached to document.body)
    children,         \* child elements of this.container, in document order
    listeners,        \* listeners registered on input / window / document
    value,            \* this.input.value
    activeElement,    \* document.activeElement === this.input
    timers,           \* number of pending setTimeout callbacks of blurEventHandler
    callbacks,        \* result closures that were handed to the caller's fetch
    applied,          \* fetch responses applied since keypressCounter last changed: 0, 1, or 2 for more
    last              \* the event dispatched last and what its handler did

vars == <<cfg, items, inputValue, selected, keypressCounter, parentNode, children,
          listeners, value, activeElement, timers, callbacks, applied, last>>

-----------------------------------------------------------------------------
(* Bounds of the model *)

MaxEpoch == 3    \* keypressCounter never exceeds this
MaxTimers == 1   \* most blur timers pending at once
MaxItems == 3    \* longest item list selectPrev, selectNext and update are called on directly

\* settings.minLength ?? 2
DefaultMinLen == 2

-----------------------------------------------------------------------------
(* Values *)

\* JavaScript's undefined (this.selected, settings.emptyMsg, an element without click handler)
Undefined == [undefined |-> TRUE]

\* Item objects a fetch can deliver; id stands for the object's identity.
ItemPool ==
    { [id |-> 1, label |-> "a", group |-> "G1"],
      [id |-> 2, label |-> "b", group |-> "G2"] }

\* The lists of n distinct items of S.
RECURSIVE ListsOf(_, _)
ListsOf(S, n) ==
    IF n = 0 THEN {<<>>}
    ELSE UNION {{Append(s, e) : e \in S \ {s[i] : i \in DOMAIN s}} : s \in ListsOf(S, n - 1)}

\* The item lists a fetch can deliver: the items of the pool, in any number
\* and order.
ResultLists == UNION {ListsOf(ItemPool, n) : n \in 0..Cardinality(ItemPool)}

\* What the caller passes to the result callback: an item list or false.
False == [false |-> TRUE]
Array(list) == [array |-> list]
Results == {False} \cup {Array(l) : l \in ResultLists}

\* Texts the input can hold.
Texts == {"a", "ab"}

\* Keys of the keyboard events.
Keys == {"a", "ArrowUp", "ArrowDown", "Enter", "Escape"}

\* A string held where undefined is possible too (settings.emptyMsg).
String(s) == [string |-> s]

\* JavaScript truthiness of the values the handlers test (an array is truthy
\* even when empty); an item's label and group are plain strings, "" standing
\* for a missing one as well, and are tested with # "".
Truthy(v) == v # Undefined /\ v # False /\ v # String("")

-----------------------------------------------------------------------------
(* The widget as a record, threaded through the methods *)

self ==
    [items |-> items, inputValue |-> inputValue, selected |-> selected,
     keypressCounter |-> keypressCounter, parentNode |-> parentNode,
     children |-> children,
     fetchCalls |-> <<>>, onSelectCalls |-> <<>>,
     defaultPrevented |-> FALSE, propagationStopped |-> FALSE,
     renders |-> 0, cleared |-> FALSE]

\* What a handler leaves behind for the outside, as recorded in last: the calls
\* of the caller's fetch and onSelect, the event's preventDefault and
\* stopPropagation, how often update() rebuilt the container, whether clear() ran.
Effects(w) ==
    [fetchCalls |-> w.fetchCalls, onSelectCalls |-> w.onSelectCalls,
     defaultPrevented |-> w.defaultPrevented,
     propagationStopped |-> w.propagationStopped,
     renders |-> w.renders, cleared |-> w.cleared]

detach(w) == IF w.parentNode THEN [w EXCEPT !.parentNode = FALSE] ELSE w

attach(w) == IF ~w.parentNode THEN [w EXCEPT !.parentNode = TRUE] ELSE w

containerDisplayed(w) == w.parentNode

\* Mutant of clear: the item list is kept.
clearKeepingItems(w) ==
    detach([w EXCEPT !.keypressCounter = @ + 1,
                     !.inputValue = "",
                     !.selected = Undefined,
                     !.cleared = TRUE])

\* Mutant of clear: keypressCounter is not advanced.
clearKeepingCounter(w) ==
    detach([w EXCEPT !.items = <<>>,
                     !.inputValue = "",
                     !.selected = Undefined,
                     !.cleared = TRUE])

clear(w) ==
    detach([w EXCEPT !.keypressCounter = @ + 1,
                     !.items = <<>>,
                     !.inputValue = "",
                     !.selected = Undefined,
                     !.cleared = TRUE])

render(item) ==
    [classList |-> {}, textContent |-> IF item.label # "" THEN item.label ELSE "",
     click |-> item]

renderGroup(groupName) ==
    [classList |-> {}, textContent |-> groupName, click |-> Undefined]

\* Mutant of fragment: every item that has a group gets a header.
RECURSIVE fragmentHeaderPerItem(_, _, _, _)
fragmentHeaderPerItem(its, i, prevGroup, sel) ==
    IF i > Len(its) THEN <<>>
    ELSE LET item == its[i]
             header == item.group # ""
             div == [render(item) EXCEPT
                        !.classList = IF item = sel THEN @ \cup {"selected"} ELSE @]
             groupDiv == [renderGroup(item.group) EXCEPT !.classList = @ \cup {"group"}]
         IN (IF header THEN <<groupDiv>> ELSE <<>>)
            \o <<div>>
            \o fragmentHeaderPerItem(its, i + 1, prevGroup, sel)

\* The body of update()'s loop over this.items, from index i on.
RECURSIVE fragment(_, _, _, _)
fragment(its, i, prevGroup, sel) ==
    IF i > Len(its) THEN <<>>
    ELSE LET item == its[i]
             header == item.group # "" /\ item.group # prevGroup
             div == [render(item) EXCEPT
                        !.classList = IF item = sel THEN @ \cup {"selected"} ELSE @]
             groupDiv == [renderGroup(item.group) EXCEPT !.classList = @ \cup {"group"}]
         IN (IF header THEN <<groupDiv>> ELSE <<>>)
            \o <<div>>
            \o fragment(its, i + 1, IF header THEN item.group ELSE prevGroup, sel)

\* Mutant of removeChildren: the old children stay.
removeNoChildren(w) == w

\* update()'s first loop: delete all children of the container.
removeChildren(w) == [w EXCEPT !.children = <<>>]

\* Mutant of update: an empty list without emptyMsg is shown like any other.
updateShowingEmpty(w) ==
    LET w0 == removeChildren([w EXCEPT !.renders = @ + 1])
        w1 == [w0 EXCEPT !.children = @ \o fragment(w.items, 1, "#9?$", w.selected)]
    IN IF Len(w.items) < 1 /\ Truthy(cfg.emptyMsg)
       THEN attach([w1 EXCEPT !.children =
                Append(@, [classList |-> {"empty"}, textContent |-> cfg.emptyMsg.string,
                           click |-> Undefined])])
       ELSE attach(w1)

update(w) ==
    LET w0 == removeChildren([w EXCEPT !.renders = @ + 1])
        w1 == [w0 EXCEPT !.children = @ \o fragment(w.items, 1, "#9?$", w.selected)]
    IN IF Len(w.items) < 1
       THEN IF Truthy(cfg.emptyMsg)
            THEN attach([w1 EXCEPT !.children =
                     Append(@, [classList |-> {"empty"}, textContent |-> cfg.emptyMsg.string,
                                click |-> Undefined])])
            ELSE clear(w1)
       ELSE attach(w1)

updateIfDisplayed(w) == IF containerDisplayed(w) THEN update(w) ELSE w

-----------------------------------------------------------------------------
\* Mutant of selectPrev: without a selection the last item is selected.
selectPrevWrappingFromNone(w) ==
    IF Len(w.items) < 1
    THEN [w EXCEPT !.selected = Undefined]
    ELSE IF ~Truthy(w.selected) \/ w.selected = w.items[1]
         THEN [w EXCEPT !.selected = w.items[Len(w.items)]]
         ELSE LET hits == {i \in 2..Len(w.items) : w.selected = w.items[i] \/ i = 2}
              IN IF hits = {} THEN w
                 ELSE LET i == CHOOSE h \in hits : \A g \in hits : g <= h
                      IN [w EXCEPT !.selected = w.items[i - 1]]

\* Mutant of selectPrev: on the first item the selection stays.
selectPrevStoppingAtFirst(w) ==
    IF Len(w.items) < 1
    THEN [w EXCEPT !.selected = Undefined]
    ELSE IF w.selected = w.items[1]
         THEN w
         ELSE LET hits == {i \in 2..Len(w.items) : w.selected = w.items[i] \/ i = 2}
              IN IF hits = {} THEN w
                 ELSE LET i == CHOOSE h \in hits : \A g \in hits : g <= h
                      IN [w EXCEPT !.selected = w.items[i - 1]]

selectPrev(w) ==
    IF Len(w.items) < 1
    THEN [w EXCEPT !.selected = Undefined]
    ELSE IF w.selected = w.items[1]
         THEN [w EXCEPT !.selected = w.items[Len(w.items)]]
         ELSE LET hits == {i \in 2..Len(w.items) : w.selected = w.items[i] \/ i = 2}
              IN IF hits = {} THEN w
                 ELSE LET i == CHOOSE h \in hits : \A g \in hits : g <= h
                      IN [w EXCEPT !.selected = w.items[i - 1]]

\* Mutant of selectNext: on the last item the selection stays.
selectNextStoppingAtLast(w) ==
    LET w1 == IF Len(w.items) < 1 THEN [w EXCEPT !.selected = Undefined] ELSE w
    IN IF ~Truthy(w1.selected)
       THEN [w1 EXCEPT !.selected = IF Len(w1.items) >= 1 THEN w1.items[1] ELSE Undefined]
       ELSE LET hits == {i \in 1..(Len(w1.items) - 1) : w1.selected = w1.items[i]}
            IN IF hits = {} THEN w1
               ELSE LET i == CHOOSE h \in hits : \A g \in hits : h <= g
                    IN [w1 EXCEPT !.selected = w1.items[i + 1]]

\* Mutant of selectNext: past the last item nothing is selected.
selectNextPastEnd(w) ==
    LET w1 == IF Len(w.items) < 1 THEN [w EXCEPT !.selected = Undefined] ELSE w
    IN IF ~Truthy(w1.selected)
       THEN [w1 EXCEPT !.selected = IF Len(w1.items) >= 1 THEN w1.items[1] ELSE Undefined]
       ELSE LET hits == {i \in 1..(Len(w1.items) - 1) : w1.selected = w1.items[i]}
            IN IF hits = {} THEN [w1 EXCEPT !.selected = Undefined]
               ELSE LET i == CHOOSE h \in hits : \A g \in hits : h <= g
                    IN [w1 EXCEPT !.selected = w1.items[i + 1]]

selectNext(w) ==
    LET w1 == IF Len(w.items) < 1 THEN [w EXCEPT !.selected = Undefined] ELSE w
    IN IF ~Truthy(w1.selected) \/ (Len(w1.items) >= 1 /\ w1.selected = w1.items[Len(w1.items)])
       THEN [w1 EXCEPT !.selected = IF Len(w1.items) >= 1 THEN w1.items[1] ELSE Undefined]
       ELSE LET hits == {i \in 1..(Len(w1.items) - 1) : w1.selected = w1.items[i]}
            IN IF hits = {} THEN w1
               ELSE LET i == CHOOSE h \in hits : \A g \in hits : h <= g
                    IN [w1 EXCEPT !.selected = w1.items[i + 1]]

\* Mutant of updateCallback: false is taken for an empty list.
updateCallbackFalseAsEmpty(w, cb, res) ==
    IF w.keypressCounter = cb.savedKeypressCounter
    THEN LET array == IF res = False THEN <<>> ELSE res.array
         IN update([w EXCEPT !.items = array,
                             !.inputValue = cb.inputText,
                             !.selected = IF Len(array) < 1 THEN Undefined ELSE array[1]])
    ELSE w

\* Mutant of updateCallback: a response for the text already shown is skipped.
updateCallbackSameTextSkipped(w, cb, res) ==
    IF w.keypressCounter = cb.savedKeypressCounter /\ Truthy(res)
       /\ w.inputValue # cb.inputText
    THEN update([w EXCEPT !.items = res.array,
                          !.inputValue = cb.inputText,
                          !.selected = IF Len(res.array) < 1 THEN Undefined ELSE res.array[1]])
    ELSE w

\* Mutant of updateCallback: the saved counter is not compared.
updateCallbackAnyEpoch(w, cb, res) ==
    IF Truthy(res)
    THEN update([w EXCEPT !.items = res.array,
                          !.inputValue = cb.inputText,
                          !.selected = IF Len(res.array) < 1 THEN Undefined ELSE res.array[1]])
    ELSE w

\* The closure startFetch passes to fetch as "update"; cb holds what it captured.
\* Mutant of updateCallback: an item already selected stays selected.
updateCallbackKeepingSelected(w, cb, res) ==
    IF w.keypressCounter = cb.savedKeypressCounter /\ Truthy(res)
    THEN update([w EXCEPT !.items = res.array,
                          !.inputValue = cb.inputText,
                          !.selected = IF Truthy(w.selected) THEN w.selected
                                       ELSE IF Len(res.array) < 1 THEN Undefined
                                       ELSE res.array[1]])
    ELSE w

updateCallback(w, cb, res) ==
    IF w.keypressCounter = cb.savedKeypressCounter /\ Truthy(res)
    THEN update([w EXCEPT !.items = res.array,
                          !.inputValue = cb.inputText,
                          !.selected = IF Len(res.array) < 1 THEN Undefined ELSE res.array[1]])
    ELSE w

\* Mutant of startFetch: the text must be longer than minLen.
startFetchLongerThanMinLen(w, isFocus) ==
    LET savedKeypressCounter == w.keypressCounter + 1
        w1 == [w EXCEPT !.keypressCounter = savedKeypressCounter]
        inputText == value
    IN IF Len(inputText) > cfg.minLen \/ isFocus
       THEN [w1 EXCEPT !.fetchCalls = Append(@,
                [text |-> inputText, isFocus |-> isFocus,
                 update |-> [savedKeypressCounter |-> savedKeypressCounter,
                             inputText |-> inputText]])]
       ELSE clear(w1)

startFetch(w, isFocus) ==
    LET savedKeypressCounter == w.keypressCounter + 1
        w1 == [w EXCEPT !.keypressCounter = savedKeypressCounter]
        inputText == value
    IN IF Len(inputText) >= cfg.minLen \/ isFocus
       THEN [w1 EXCEPT !.fetchCalls = Append(@,
                [text |-> inputText, isFocus |-> isFocus,
                 update |-> [savedKeypressCounter |-> savedKeypressCounter,
                             inputText |-> inputText]])]
       ELSE clear(w1)

resizeEventHandler(w) == updateIfDisplayed(w)

scrollEventHandler(w, target) ==
    IF target # "container"
    THEN updateIfDisplayed(w)
    ELSE [w EXCEPT !.defaultPrevented = TRUE]

keyupEventHandler(w, key) ==
    LET ignores == {"ArrowUp", "Enter", "Escape", "ArrowRight", "ArrowLeft", "Shift",
                    "Control", "Alt", "CapsLock", "Meta", "Tab"}
    IN IF key \in ignores THEN w
       ELSE IF key = "Fn" THEN w
       ELSE IF key = "ArrowDown" /\ containerDisplayed(w) THEN w
       ELSE startFetch(w, FALSE)

\* Mutant of enterKey: the default action is suppressed only after a selection.
enterKeyPreventOnSelection(w) ==
    IF Truthy(w.selected)
    THEN LET w1 == clear([w EXCEPT !.onSelectCalls = Append(@, w.selected)])
         IN IF cfg.preventSubmit THEN [w1 EXCEPT !.defaultPrevented = TRUE] ELSE w1
    ELSE w

\* keydownEventHandler's branch for the Enter key.
enterKey(w) ==
    LET w1 == IF Truthy(w.selected)
              THEN clear([w EXCEPT !.onSelectCalls = Append(@, w.selected)])
              ELSE w
    IN IF cfg.preventSubmit THEN [w1 EXCEPT !.defaultPrevented = TRUE] ELSE w1

\* Mutant of keydownEventHandler: the arrow keys are ignored only while the
\* container is not displayed.
keydownEventHandlerWithoutItemsCheck(w, key) ==
    IF key = "ArrowUp" \/ key = "ArrowDown" \/ key = "Escape"
    THEN LET containerIsDisplayed == containerDisplayed(w)
             stop(x) == [x EXCEPT !.defaultPrevented = TRUE,
                                  !.propagationStopped = containerIsDisplayed]
         IN IF key = "Escape"
            THEN stop(clear(w))
            ELSE IF ~containerIsDisplayed
                 THEN w
                 ELSE stop(update(IF key = "ArrowUp" THEN selectPrev(w) ELSE selectNext(w)))
    ELSE IF key = "Enter" THEN enterKey(w)
    ELSE w

keydownEventHandler(w, key) ==
    IF key = "ArrowUp" \/ key = "ArrowDown" \/ key = "Escape"
    THEN LET containerIsDisplayed == containerDisplayed(w)
             stop(x) == [x EXCEPT !.defaultPrevented = TRUE,
                                  !.propagationStopped = containerIsDisplayed]
         IN IF key = "Escape"
            THEN stop(clear(w))
            ELSE IF ~containerIsDisplayed \/ Len(w.items) < 1
                 THEN w
                 ELSE stop(update(IF key = "ArrowUp" THEN selectPrev(w) ELSE selectNext(w)))
    ELSE IF key = "Enter" THEN enterKey(w)
    ELSE w

focusEventHandler(w) == IF cfg.showOnFocus THEN startFetch(w, TRUE) ELSE w

\* Mutant of blurTimeout: the focus test is inverted.
blurTimeoutFocusTestInverted(w) == IF activeElement THEN clear(w) ELSE w

\* Mutant of blurTimeout: the timer clears without looking at the focus.
blurTimeoutWithoutFocusCheck(w) == clear(w)

\* The callback blurEventHandler hands to setTimeout.
blurTimeout(w) == IF ~activeElement THEN clear(w) ELSE w

\* Mutant of clickHandler: onSelect is given the highlighted item.
clickHandlerOfSelected(w, item) ==
    LET w1 == clear([w EXCEPT !.onSelectCalls = Append(@, w.selected)])
    IN [w1 EXCEPT !.defaultPrevented = TRUE, !.propagationStopped = TRUE]

\* The click listener update() puts on the element rendered for item.
clickHandler(w, item) ==
    LET w1 == clear([w EXCEPT !.onSelectCalls = Append(@, item)])
    IN [w1 EXCEPT !.defaultPrevented = TRUE, !.propagationStopped = TRUE]

-----------------------------------------------------------------------------
(* Listeners: addEventListener / removeEventListener match on target, type, *)
(* the function object and the capture flag.                                *)

Listener(target, type, fn, capture) ==
    [target |-> target, type |-> type, fn |-> fn, capture |-> capture]

\* The six listeners the constructor registers: each is a fresh arrow function.
constructorListeners ==
    { Listener("input", "keydown", "arrow:keydown", FALSE),
      Listener("input", "keyup", "arrow:keyup", FALSE),
      Listener("input", "blur", "arrow:blur", FALSE),
      Listener("input", "focus", "arrow:focus", FALSE),
      Listener("window", "resize", "arrow:resize", FALSE),
      Listener("document", "scroll", "arrow:scroll", TRUE) }

removeEventListener(ls, l) == ls \ {l}

\* The listeners left after destroy()'s six removeEventListener calls, which
\* pass the prototype methods.
destroyListeners(ls) ==
    LET l1 == removeEventListener(ls, Listener("input", "keydown", "method:keydownEventHandler", FALSE))
        l2 == removeEventListener(l1, Listener("input", "keyup", "method:keyupEventHandler", FALSE))
        l3 == removeEventListener(l2, Listener("input", "focus", "method:focusEventHandler", FALSE))
        l4 == removeEventListener(l3, Listener("input", "blur", "method:blurEventHandler", FALSE))
        l5 == removeEventListener(l4, Listener("window", "resize", "method:resizeEventHandler", FALSE))
    IN removeEventListener(l5, Listener("document", "scroll", "method:scrollEventHandler", TRUE))

destroy(w) == clear(w)

Bound(target, type) == \E l \in listeners : l.target = target /\ l.type = type

-----------------------------------------------------------------------------
\* The settings the widget is constructed with: minLength left to its default,
\* and four combinations of the three options in which every pair of option
\* values occurs.
Options(emptyMsg, showOnFocus, preventSubmit) ==
    [minLen |-> DefaultMinLen, emptyMsg |-> emptyMsg,
     showOnFocus |-> showOnFocus, preventSubmit |-> preventSubmit]

Settings ==
    { Options(Undefined, FALSE, FALSE),
      Options(Undefined, TRUE, TRUE),
      Options(String("No results"), FALSE, TRUE),
      Options(String("No results"), TRUE, FALSE) }

\* The state the constructor leaves; the input holds a text and is not focused.
Init ==
    /\ cfg \in Settings
    /\ items = <<>>
    /\ inputValue = ""
    /\ selected = Undefined
    /\ keypressCounter = 0
    /\ parentNode = FALSE
    /\ children = <<>>
    /\ listeners = constructorListeners
    /\ value = "a"
    /\ activeElement = FALSE
    /\ timers = 0
    /\ callbacks = {}
    /\ applied = 0
    /\ last = [op |-> "constructor", isFalse |-> FALSE, effects |-> Effects(self)]

\* The widget after a handler returned w; op names the event, and isFalse tells
\* whether it was a result callback invoked with false.
Commit(w, op, isFalse) ==
    /\ w.keypressCounter <= MaxEpoch
    /\ items' = w.items
    /\ inputValue' = w.inputValue
    /\ selected' = w.selected
    /\ keypressCounter' = w.keypressCounter
    /\ parentNode' = w.parentNode
    /\ children' = w.children
    /\ callbacks' = callbacks \cup {w.fetchCalls[i].update : i \in DOMAIN w.fetchCalls}
    /\ applied' = IF w.keypressCounter # keypressCounter THEN 0
                  ELSE IF op = "update" /\ w.renders > 0
                       THEN (IF applied < 2 THEN applied + 1 ELSE applied)
                       ELSE applied
    /\ last' = [op |-> op, isFalse |-> isFalse, effects |-> Effects(w)]

\* The user edits the text of the focused input.
Type(t) ==
    /\ activeElement
    /\ t # value
    /\ value' = t
    /\ UNCHANGED <<cfg, items, inputValue, selected, keypressCounter, parentNode, children,
                   listeners, activeElement, timers, callbacks, applied, last>>

Keydown(key) ==
    /\ activeElement
    /\ Bound("input", "keydown")
    /\ Commit(keydownEventHandler(self, key), "keydown", FALSE)
    /\ UNCHANGED <<cfg, listeners, value, activeElement, timers>>

Keyup(key) ==
    /\ activeElement
    /\ Bound("input", "keyup")
    /\ Commit(keyupEventHandler(self, key), "keyup", FALSE)
    /\ UNCHANGED <<cfg, listeners, value, activeElement, timers>>

Focus ==
    /\ ~activeElement
    /\ Bound("input", "focus")
    /\ activeElement' = TRUE
    /\ Commit(focusEventHandler(self), "focus", FALSE)
    /\ UNCHANGED <<cfg, listeners, value, timers>>

\* blurEventHandler only starts the timer.
Blur ==
    /\ activeElement
    /\ Bound("input", "blur")
    /\ timers < MaxTimers
    /\ activeElement' = FALSE
    /\ timers' = timers + 1
    /\ Commit(self, "blur", FALSE)
    /\ UNCHANGED <<cfg, listeners, value>>

BlurTimeout ==
    /\ timers > 0
    /\ timers' = timers - 1
    /\ Commit(blurTimeout(self), "blurTimeout", FALSE)
    /\ UNCHANGED <<cfg, listeners, value, activeElement>>

Resize ==
    /\ Bound("window", "resize")
    /\ Commit(resizeEventHandler(self), "resize", FALSE)
    /\ UNCHANGED <<cfg, listeners, value, activeElement, timers>>

\* A scroll event seen by the document's capturing listener; the container
\* can be its target only while it is in the document.
Scroll(target) ==
    /\ Bound("document", "scroll")
    /\ target = "container" => parentNode
    /\ Commit(scrollEventHandler(self, target), "scroll", FALSE)
    /\ UNCHANGED <<cfg, listeners, value, activeElement, timers>>

\* A click on the i-th child of the displayed container.
Click(i) ==
    /\ parentNode
    /\ i \in DOMAIN children
    /\ children[i].click # Undefined
    /\ Commit(clickHandler(self, children[i].click), "click", FALSE)
    /\ UNCHANGED <<cfg, listeners, value, activeElement, timers>>

\* The caller's fetch invokes a result closure it was given.
Update(cb, res) ==
    /\ cb \in callbacks
    /\ Commit(updateCallback(self, cb, res), "update", res = False)
    /\ UNCHANGED <<cfg, listeners, value, activeElement, timers>>

Destroy ==
    /\ listeners' = destroyListeners(listeners)
    /\ Commit(destroy(self), "destroy", FALSE)
    /\ UNCHANGED <<cfg, value, activeElement, timers>>

Next ==
    \/ \E t \in Texts : Type(t)
    \/ \E key \in Keys : Keydown(key)
    \/ \E key \in Keys : Keyup(key)
    \/ Focus
    \/ Blur
    \/ BlurTimeout
    \/ Resize
    \/ \E target \in {"document", "container"} : Scroll(target)
    \/ \E i \in DOMAIN children : Click(i)
    \/ \E cb \in callbacks, res \in Results : Update(cb, res)
    \/ Destroy

Spec == Init /\ [][Next]_vars

\* The event loop runs every callback handed to setTimeout: a pending blur
\* timer fires.
SpecFair == Spec /\ WF_vars(BlurTimeout)

-----------------------------------------------------------------------------
(* selectPrev, selectNext and update called directly *)

\* Item objects with the groups update() tells apart: a group shared by two
\* items, another group, no group, and the string update() starts prevGroup with.
GroupedItemPool ==
    { [id |-> 1, label |-> "a", group |-> "G1"],
      [id |-> 2, label |-> "b", group |-> "G2"],
      [id |-> 3, label |-> "c", group |-> "G1"],
      [id |-> 4, label |-> "d", group |-> ""],
      [id |-> 5, label |-> "e", group |-> "#9?$"] }

\* The lists of at most MaxItems distinct items of the pool.
ItemLists == UNION {ListsOf(GroupedItemPool, n) : n \in 0..MaxItems}

\* A widget whose public fields items and selected hold any list and either
\* no selection or one of the list's items.
MethodsInit ==
    /\ cfg \in {Options(Undefined, FALSE, FALSE), Options(String("No results"), FALSE, FALSE)}
    /\ items \in ItemLists
    /\ selected \in {Undefined} \cup {items[k] : k \in DOMAIN items}
    /\ inputValue = ""
    /\ keypressCounter = 0
    /\ parentNode = FALSE
    /\ children = <<>>
    /\ listeners = constructorListeners
    /\ value = "a"
    /\ activeElement = FALSE
    /\ timers = 0
    /\ callbacks = {}
    /\ applied = 0
    /\ last = [op |-> "constructor", isFalse |-> FALSE, effects |-> Effects(self)]

\* last.op tells a selectPrev() that directly follows a selectNext() apart.
CallSelectPrev ==
    /\ Commit(selectPrev(self),
              IF last.op = "selectNext" THEN "selectNext,selectPrev" ELSE "selectPrev", FALSE)
    /\ UNCHANGED <<cfg, listeners, value, activeElement, timers>>

CallSelectNext ==
    /\ Commit(selectNext(self), "selectNext", FALSE)
    /\ UNCHANGED <<cfg, listeners, value, activeElement, timers>>

CallUpdate ==
    /\ Commit(update(self), "update()", FALSE)
    /\ UNCHANGED <<cfg, listeners, value, activeElement, timers>>

MethodsNext ==
    \/ CallSelectPrev
    \/ CallSelectNext
    \/ CallUpdate

SpecMethods == MethodsInit /\ [][MethodsNext]_vars

TypeOK ==
    /\ items \in ResultLists
    /\ selected \in ItemPool \cup {Undefined}
    /\ keypressCounter \in 0..MaxEpoch
    /\ timers \in 0..MaxTimers
    /\ applied \in 0..2

-----------------------------------------------------------------------------
(* Properties *)

\* What the user sees of the widget: the list, the text it belongs to, the
\* highlighted item and the overlay.
visible == <<items, inputValue, selected, parentNode, children>>

\* The state clear() leaves.
Idle == items = <<>> /\ inputValue = "" /\ selected = Undefined /\ ~parentNode

\* C1: an invocation of a result callback changes items, inputValue, selected or
\* the overlay only if the counter its startFetch saved equals keypressCounter at
\* the moment of the invocation; an invocation of a superseded startFetch's
\* callback changes nothing.
OnlyCurrentEpochApplied ==
    [][(last'.op = "update" /\ <<visible, keypressCounter>>' # <<visible, keypressCounter>>) =>
          \A cb \in callbacks, res \in Results :
              Update(cb, res) => cb.savedKeypressCounter = keypressCounter]_vars

\* C1 witness: a response was just applied while the closure of an earlier,
\* superseded startFetch exists.
SupersededFetchWitness ==
    /\ last.op = "update"
    /\ last.effects.renders = 1
    /\ items # <<>>
    /\ \E cb \in callbacks : cb.savedKeypressCounter < keypressCounter
    /\ \E cb \in callbacks : cb.savedKeypressCounter = keypressCounter

\* C2 (as claimed): at most one fetch response per epoch is applied; a second
\* invocation of the same result callback with an item list is dropped.
AtMostOneResponsePerEpoch == applied <= 1

\* C2 (amended): an invocation of a result callback with an item list is applied
\* exactly when the counter saved by its startFetch is still keypressCounter,
\* whether or not an earlier invocation of that callback was applied already:
\* duplicate completions of the current request each replace the list, and only
\* completions of superseded requests are dropped.  Stated of what the closure
\* does when invoked in any reachable state, among them the states in which a
\* response of its epoch has been applied before.
EveryCurrentEpochResponseApplied ==
    \A cb \in callbacks, res \in Results \ {False} :
        LET w == updateCallback(self, cb, res)
        IN IF cb.savedKeypressCounter = keypressCounter
           THEN /\ w.renders = 1
                /\ w.items = res.array
                /\ w.selected = (IF res.array = <<>> THEN Undefined ELSE res.array[1])
                /\ w.parentNode = (res.array # <<>> \/ Truthy(cfg.emptyMsg))
           ELSE w = self

\* C2 witness: two responses were applied without keypressCounter changing.
DuplicateAppliedWitness == last.op = "update" /\ applied = 2 /\ parentNode

\* The events the constructor binds listeners for.
InputEvent ==
    \/ \E key \in Keys : Keydown(key)
    \/ \E key \in Keys : Keyup(key)
    \/ Focus
    \/ Blur
    \/ Resize
    \/ \E target \in {"document", "container"} : Scroll(target)

\* C3: once destroy() has returned, a keydown, keyup, focus, blur, resize or
\* scroll event calls no fetch and changes nothing of the widget (stated for the
\* events that follow destroy() with no other handler in between).
NoHandlerAfterDestroy ==
    [][(last.op = "destroy" /\ InputEvent) =>
          /\ last'.effects.fetchCalls = <<>>
          /\ UNCHANGED <<visible, keypressCounter, timers, callbacks>>]_vars

\* C4: clear() leaves items empty, inputValue and selected reset and the overlay
\* detached, and makes every result closure handed out so far stale;
\* keypressCounter never goes back, and a stale closure changes nothing: so no
\* fetch started before a clear is ever applied after it.
ClearInvalidatesPendingFetches ==
    [][/\ keypressCounter' >= keypressCounter
       /\ last'.effects.cleared =>
              /\ Idle'
              /\ \A cb \in callbacks' : cb.savedKeypressCounter < keypressCounter'
       /\ (last'.op = "update" /\ <<visible, keypressCounter>>' # <<visible, keypressCounter>>) =>
              \A cb \in callbacks, res \in Results :
                  Update(cb, res) => ~(cb.savedKeypressCounter < keypressCounter)]_vars

\* C4 witness: an item list was delivered to a closure after a clear, with no
\* newer fetch started, and the widget stayed cleared.
ResponseAfterClearWitness ==
    /\ last.op = "update"
    /\ ~last.isFalse
    /\ last.effects.renders = 0
    /\ Idle
    /\ callbacks # {}
    /\ \A cb \in callbacks : cb.savedKeypressCounter < keypressCounter

\* The keyup events that keyupEventHandler passes on to startFetch.
ReachesStartFetch(key) ==
    /\ key \notin {"ArrowUp", "Enter", "Escape"}
    /\ ~(key = "ArrowDown" /\ parentNode)

\* The one call of the caller's fetch that startFetch makes.
FetchCall(isFocus) ==
    [text |-> value, isFocus |-> isFocus,
     update |-> [savedKeypressCounter |-> keypressCounter + 1, inputText |-> value]]

\* C5: startFetch calls fetch exactly when it is focus-triggered or the text has
\* at least minLen characters: a keyup with a shorter text calls no fetch and
\* clears the widget, a focus event with showOnFocus calls fetch with
\* isFocus = true whatever the text, a focus event without showOnFocus calls none.
FetchIffLongEnoughOrFocus ==
    [][/\ last'.op = "keyup" =>
              \A key \in Keys :
                  (Keyup(key) /\ ReachesStartFetch(key)) =>
                      IF Len(value) >= cfg.minLen
                      THEN last'.effects.fetchCalls = <<FetchCall(FALSE)>>
                      ELSE last'.effects.fetchCalls = <<>> /\ Idle'
       /\ (last'.op = "focus" /\ Focus) =>
              IF cfg.showOnFocus = TRUE
              THEN last'.effects.fetchCalls = <<FetchCall(TRUE)>>
              ELSE last'.effects.fetchCalls = <<>>]_vars

\* C5 witness: a keyup with a text shorter than minLen called no fetch and
\* cleared the widget, whose overlay had been rendered before.
ShortTextKeyupWitness ==
    /\ last.op = "keyup"
    /\ Len(value) < cfg.minLen
    /\ last.effects.cleared
    /\ last.effects.fetchCalls = <<>>
    /\ children # <<>>

\* C6: a click on a rendered suggestion element calls onSelect exactly once, with
\* the item that element was rendered for (an item of the list), and leaves the
\* widget cleared, also while a blur timer is pending; a blur timer that fires
\* calls no onSelect.
ClickSelectsElementItemOnce ==
    [][/\ last'.op = "click" =>
              \A i \in DOMAIN children :
                  Click(i) =>
                      /\ \E k \in DOMAIN items :
                             /\ items[k] = children[i].click
                             /\ items[k].label = children[i].textContent
                      /\ last'.effects.onSelectCalls = <<children[i].click>>
                      /\ Idle'
       /\ (last'.op = "blurTimeout" /\ BlurTimeout) =>
              last'.effects.onSelectCalls = <<>>]_vars

\* C6 witness: an element was clicked while a blur timer was pending.
ClickBeforeBlurTimeoutWitness ==
    /\ last.op = "click"
    /\ Len(last.effects.onSelectCalls) = 1
    /\ timers > 0
    /\ ~activeElement
    /\ Idle

\* C7: an Enter keydown with an item selected calls onSelect once with that item
\* and clears the widget; without a selection it calls no onSelect and changes
\* nothing; either way the default action is suppressed exactly when
\* preventSubmit is set.
EnterSelectsAndPreventsSubmit ==
    [][(last'.op = "keydown" /\ Keydown("Enter")) =>
          /\ IF selected # Undefined
             THEN last'.effects.onSelectCalls = <<selected>> /\ Idle'
             ELSE /\ last'.effects.onSelectCalls = <<>>
                  /\ UNCHANGED <<visible, keypressCounter>>
          /\ last'.effects.defaultPrevented = (cfg.preventSubmit = TRUE)]_vars

\* C7 witness: Enter was pressed without a selection and with preventSubmit set,
\* and only the default action was suppressed.
EnterWithoutSelectionWitness ==
    /\ last.op = "keydown"
    /\ cfg.preventSubmit = TRUE
    /\ last.effects.defaultPrevented
    /\ last.effects.onSelectCalls = <<>>
    /\ ~last.effects.cleared
    /\ last.effects.renders = 0

\* C8: when the closure of the current epoch is given the empty list and no
\* emptyMsg is set, the widget is cleared and the overlay is not attached after
\* the render; the overlay is never attached with no items and no emptyMsg.
EmptyResultWithoutMsgCloses ==
    [][/\ (last'.op = "update" /\ ~last'.isFalse /\ ~Truthy(cfg.emptyMsg)) =>
              \A cb \in callbacks :
                  (cb.savedKeypressCounter = keypressCounter
                   /\ Update(cb, Array(<<>>))) =>
                      /\ ~parentNode'
                      /\ Idle'
                      /\ last'.effects.cleared
       /\ (parentNode' /\ items' = <<>>) => Truthy(cfg.emptyMsg)]_vars

\* C8 witness: an empty list was rendered without emptyMsg, which cleared the
\* widget.
EmptyResultClosedWitness ==
    /\ last.op = "update"
    /\ last.effects.renders = 1
    /\ last.effects.cleared
    /\ ~Truthy(cfg.emptyMsg)
    /\ ~parentNode

\* The element update() appends for emptyMsg.
EmptyElement ==
    [classList |-> {"empty"}, textContent |-> cfg.emptyMsg.string, click |-> Undefined]

\* C9: when the closure of the current epoch is given the empty list and
\* emptyMsg is set, the overlay is attached after the render and holds exactly
\* the one element with the emptyMsg text, and a re-render by a resize or scroll
\* event leaves exactly that.
EmptyMsgIsTheOnlyChild ==
    [][/\ (last'.op = "update" /\ ~last'.isFalse /\ Truthy(cfg.emptyMsg)) =>
              \A cb \in callbacks :
                  (cb.savedKeypressCounter = keypressCounter
                   /\ Update(cb, Array(<<>>))) =>
                      /\ parentNode'
                      /\ children' = <<EmptyElement>>
       /\ (parentNode /\ items = <<>> /\ Truthy(cfg.emptyMsg)
           /\ (Resize \/ Scroll("document"))) =>
              /\ last'.effects.renders = 1
              /\ parentNode'
              /\ items' = <<>>
              /\ children' = <<EmptyElement>>]_vars

\* C9 witness: the overlay showing only emptyMsg was rendered again by a resize
\* or scroll event.
EmptyMsgRerenderedWitness ==
    /\ last.op \in {"resize", "scroll"}
    /\ last.effects.renders = 1
    /\ Truthy(cfg.emptyMsg)
    /\ parentNode
    /\ items = <<>>
    /\ children = <<EmptyElement>>

\* C10: a result callback invoked with false changes neither items, inputValue,
\* selected, the overlay nor keypressCounter, whatever its epoch; an item list
\* given next to the closure of the current epoch is applied.
FalseSentinelChangesNothing ==
    [][/\ (last'.op = "update" /\ last'.isFalse) =>
              \A cb \in callbacks :
                  Update(cb, False) =>
                      /\ UNCHANGED <<visible, keypressCounter>>
                      /\ last'.effects.renders = 0
       /\ (last.op = "update" /\ last.isFalse
           /\ last'.op = "update" /\ ~last'.isFalse) =>
              \A cb \in callbacks, res \in Results \ {False} :
                  (cb.savedKeypressCounter = keypressCounter /\ Update(cb, res)) =>
                      /\ last'.effects.renders = 1
                      /\ items' = res.array]_vars

\* C10 witness: the closure of the current epoch exists and false was delivered
\* while a list was displayed.
FalseSentinelWitness ==
    /\ last.op = "update"
    /\ last.isFalse
    /\ parentNode
    /\ items # <<>>
    /\ \E cb \in callbacks : cb.savedKeypressCounter = keypressCounter

\* C11: selected is undefined or one of the objects of the current items; an
\* item of a list displayed earlier and since replaced is never selected.
SelectedIsOneOfItems ==
    selected = Undefined \/ \E k \in DOMAIN items : items[k] = selected

\* C11 witness: a second list replaced the one displayed, and the selection
\* is the first item of the new list.
ListReplacedWitness ==
    /\ last.op = "update"
    /\ applied = 2
    /\ items # <<>>
    /\ selected = items[1]

\* C12: the widget is either idle (container detached, items empty, nothing
\* selected, inputValue empty) or open (container attached, and items non-empty
\* or the empty message displayed); it is never attached with an empty list
\* and no empty message.
IdleOrOpen ==
    IF parentNode
    THEN items # <<>> \/ (Truthy(cfg.emptyMsg) /\ children = <<EmptyElement>>)
    ELSE Idle

\* C12 witness: an empty result left the container open on the empty message.
OpenOnEmptyMsgWitness ==
    /\ last.op = "update"
    /\ last.effects.renders = 1
    /\ parentNode
    /\ items = <<>>

\* C20: whenever items is non-empty one of its items is selected, so the key
\* handlers call selectPrev and selectNext only with a selection present.
NonEmptyItemsHaveSelection ==
    items # <<>> => selected # Undefined

\* C20 witness: an arrow key moved the selection to the last of several items.
ArrowMovedSelectionWitness ==
    /\ last.op = "keydown"
    /\ last.effects.renders = 1
    /\ Len(items) >= 2
    /\ selected = items[Len(items)]

\* C17: a blur timer that fires while the input has the focus again changes
\* neither items, inputValue, selected, the overlay nor keypressCounter, and an
\* item list given afterwards to the closure of the current epoch is applied.
BlurTimeoutAfterRefocusChangesNothing ==
    [][/\ (last'.op = "blurTimeout" /\ activeElement /\ BlurTimeout) =>
              /\ UNCHANGED <<visible, keypressCounter>>
              /\ ~last'.effects.cleared
              /\ last'.effects.renders = 0
       /\ (last.op = "blurTimeout" /\ ~last.effects.cleared
           /\ last'.op = "update" /\ ~last'.isFalse) =>
              \A cb \in callbacks, res \in Results \ {False} :
                  (cb.savedKeypressCounter = keypressCounter /\ Update(cb, res)) =>
                      /\ last'.effects.renders = 1
                      /\ items' = res.array]_vars

\* C17 witness: the timer fired after the focus came back, with a list
\* displayed and the fetch of the current epoch still in flight.
BlurTimeoutAfterRefocusWitness ==
    /\ last.op = "blurTimeout"
    /\ activeElement
    /\ ~last.effects.cleared
    /\ parentNode
    /\ items # <<>>
    /\ \E cb \in callbacks : cb.savedKeypressCounter = keypressCounter

\* C19: ArrowDown/ArrowUp pressed while the container is displayed and items is
\* non-empty selects the next/previous item (wrapping at the ends), rebuilds the
\* container once, prevents the default and stops propagation, and leaves
\* items, inputValue and keypressCounter as they were; pressed while the
\* container is detached or items is empty it changes nothing, calls no fetch
\* and does not prevent the default.
ArrowKeysNavigateOnlyOpenList ==
    [][last'.op = "keydown" =>
          \A key \in {"ArrowUp", "ArrowDown"} :
              Keydown(key) =>
                  IF parentNode /\ items # <<>>
                  THEN /\ \E k \in DOMAIN items :
                              /\ items[k] = selected
                              /\ selected' = items[IF key = "ArrowDown"
                                                   THEN (k % Len(items)) + 1
                                                   ELSE ((k + Len(items) - 2) % Len(items)) + 1]
                       /\ last'.effects.renders = 1
                       /\ \A j \in DOMAIN children' :
                              "selected" \in children'[j].classList
                                  <=> children'[j].click = selected'
                       /\ last'.effects.defaultPrevented
                       /\ last'.effects.propagationStopped
                       /\ last'.effects.fetchCalls = <<>>
                       /\ UNCHANGED <<items, inputValue, keypressCounter, parentNode>>
                  ELSE /\ UNCHANGED <<visible, keypressCounter>>
                       /\ last'.effects.renders = 0
                       /\ last'.effects.fetchCalls = <<>>
                       /\ ~last'.effects.defaultPrevented]_vars

\* C19 witness: an arrow key was handled on a list of several items and the
\* first item is selected again.
ArrowKeyHandledWitness ==
    /\ last.op = "keydown"
    /\ last.effects.renders = 1
    /\ last.effects.propagationStopped
    /\ Len(items) >= 2
    /\ selected = items[1]

\* The step is a call of selectPrev().
SelectPrevCalled == last'.op \in {"selectPrev", "selectNext,selectPrev"} /\ CallSelectPrev

\* C13 as claimed: selectPrev() on a non-empty list selects the last item when
\* the first item or nothing is selected, and else the item before the selected
\* one; on an empty list nothing is selected.
SelectPrevWrapsFromFirstOrNone ==
    [][SelectPrevCalled =>
          IF items = <<>> THEN selected' = Undefined
          ELSE IF selected = Undefined \/ selected = items[1]
               THEN selected' = items[Len(items)]
               ELSE \E k \in 2..Len(items) :
                        items[k] = selected /\ selected' = items[k - 1]]_vars

\* C13 amended: selectPrev() on a non-empty list selects the last item when the
\* first item is selected and the item before the selected one when a later item
\* is; with nothing selected it selects the first item of a list of two or more
\* items and leaves the selection undefined on a list of one item; on an empty
\* list nothing is selected.
SelectPrevWrapsFromFirstOnly ==
    [][SelectPrevCalled =>
          IF items = <<>> THEN selected' = Undefined
          ELSE IF selected = items[1] THEN selected' = items[Len(items)]
          ELSE IF selected = Undefined
               THEN selected' = IF Len(items) >= 2 THEN items[1] ELSE Undefined
               ELSE \E k \in 2..Len(items) :
                        items[k] = selected /\ selected' = items[k - 1]]_vars

\* C13 witness: selectPrev() was called with nothing selected on a list of one
\* item, and nothing is selected.
SelectPrevFromNoneWitness ==
    /\ last.op = "selectPrev"
    /\ Len(items) = 1
    /\ selected = Undefined

\* C14 as claimed: on a non-empty list, selectNext() followed by selectPrev()
\* leaves selected as it was, whether an item or nothing was selected.
NextThenPrevRestoresAnySelection ==
    items # <<>> => selectPrev(selectNext(self)).selected = selected

\* C14 amended: on a non-empty list, selectNext() followed by selectPrev() leaves
\* selected as it was when an item of the list was selected; with nothing
\* selected the two calls end on the last item.
NextThenPrevRestoresSelectedItem ==
    items # <<>> =>
        selectPrev(selectNext(self)).selected =
            IF selected = Undefined THEN items[Len(items)] ELSE selected

\* C14 witness: selectPrev() directly followed selectNext() on a list of several
\* items and ended on the last item.
NextThenPrevWitness ==
    /\ last.op = "selectNext,selectPrev"
    /\ Len(items) >= 2
    /\ selected = items[Len(items)]

\* selectNext() called n times.
RECURSIVE selectNextTimes(_, _)
selectNextTimes(w, n) == IF n = 0 THEN w ELSE selectNext(selectNextTimes(w, n - 1))

\* C15: with the first item of a non-empty list selected, the n-th call of
\* selectNext() selects the item after the one selected before, the call on the
\* last item selects the first, and after items.length calls the first item is
\* selected again.
SelectNextCyclesThroughItems ==
    items # <<>> =>
        LET first == [self EXCEPT !.selected = items[1]]
        IN /\ \A n \in 1..Len(items) :
                  selectNextTimes(first, n).selected = items[(n % Len(items)) + 1]
           /\ selectNextTimes(first, Len(items)).selected = items[1]

\* C15 witness: selectNext() selected the first item of a list of three or more.
SelectNextOnLongListWitness ==
    /\ last.op = "selectNext"
    /\ Len(items) >= 3
    /\ selected = items[1]

\* The children update() builds for its, a group header standing before the
\* items whose index is in heads.
RECURSIVE Rendering(_, _, _)
Rendering(its, sel, heads) ==
    IF its = <<>> THEN <<>>
    ELSE LET n == Len(its)
             div == [classList |-> IF its[n] = sel THEN {"selected"} ELSE {},
                     textContent |-> its[n].label, click |-> its[n]]
             groupDiv == [classList |-> {"group"}, textContent |-> its[n].group,
                          click |-> Undefined]
         IN Rendering(SubSeq(its, 1, n - 1), sel, heads)
            \o (IF n \in heads THEN <<groupDiv>> ELSE <<>>)
            \o <<div>>

\* The group of the nearest item before the i-th that has one, and the string
\* prevGroup starts with when there is none.
GroupBefore(i) ==
    LET named == {j \in 1..(i - 1) : items[j].group # ""}
    IN IF named = {} THEN "#9?$"
       ELSE items[CHOOSE j \in named : \A h \in named : h <= j].group

\* update() was called on a non-empty list and nothing since.
Updated == last.op = "update()" /\ items # <<>>

\* C16 as claimed: update() puts a group header before an item exactly when the
\* item is the first or its group differs from the group of the item before it.
HeaderWhereGroupDiffersFromPreviousItem ==
    Updated =>
        children = Rendering(items, selected,
                             {i \in DOMAIN items : i = 1 \/ items[i].group # items[i - 1].group})

\* C16 amended: update() puts a group header before an item exactly when the
\* item has a non-empty group that differs from the group of the nearest
\* earlier item that has one, or from "#9?$" when no earlier item has one; an
\* item without group never gets a header. When every item has a group other
\* than "#9?$", the headers are as many as the maximal runs of items of one
\* group.
HeaderWhereNamedGroupChanges ==
    Updated =>
        /\ children = Rendering(items, selected,
                                {i \in DOMAIN items :
                                     items[i].group # "" /\ items[i].group # GroupBefore(i)})
        /\ (\A i \in DOMAIN items : items[i].group \notin {"", "#9?$"}) =>
               Cardinality({j \in DOMAIN children : "group" \in children[j].classList})
                   = Cardinality({i \in DOMAIN items :
                                      i = 1 \/ items[i].group # items[i - 1].group})

\* C16 witness: update() rendered items of group G1, of no group and of group
\* G1 again with a single header.
GroupInterruptedWitness ==
    /\ last.op = "update()"
    /\ Len(items) = 3
    /\ items[1].group = "G1"
    /\ items[2].group = ""
    /\ items[3].group = "G1"
    /\ Len(children) = 4

\* No result closure handed out so far belongs to the current epoch.
NoCurrentFetch == \A cb \in callbacks : cb.savedKeypressCounter # keypressCounter

\* C18: while a blur timer is pending and the input is without focus, the
\* widget eventually is idle (items empty, nothing selected, inputValue empty,
\* container detached) unless the focus returns; the timer firing without focus
\* clears the widget, and the cleared widget stays idle through every step
\* that is not a focus or key event, completions of earlier fetches included.
\* (keypressCounter stops at MaxEpoch in the model, where clear() has no
\* successor; the pending timer is followed from the states below it.)
BlurLeadsToIdle ==
    /\ (timers > 0 /\ ~activeElement /\ keypressCounter < MaxEpoch)
           ~> (activeElement \/ Idle)
    /\ [][/\ (last'.op = "blurTimeout" /\ ~activeElement /\ BlurTimeout) =>
                 /\ Idle'
                 /\ NoCurrentFetch'
                 /\ last'.effects.cleared
          /\ (Idle /\ NoCurrentFetch /\ last'.op \notin {"focus", "keyup", "keydown"}) =>
                 /\ Idle'
                 /\ NoCurrentFetch']_vars

\* C18 witness: the timer fired without focus and cleared the widget while
\* result closures of earlier fetches were still with the caller.
BlurTimeoutClearedWitness ==
    /\ last.op = "blurTimeout"
    /\ last.effects.cleared
    /\ ~activeElement
    /\ Idle
    /\ callbacks # {}
====
